---- MODULE Spec2Model ----
(***************************************************************************)
(* The recommendation engine of recommendation_service/core/               *)
(* recommendation_engine.py: RecommendationEngine.get_recommendations and  *)
(* the scorers, the hybrid merger and the history writer it calls.         *)
(*                                                                         *)
(* Numbers.  The code computes in IEEE doubles; the model computes in      *)
(* integers:                                                               *)
(*   - interaction weights are kept times WeightScale (2.5 becomes 5);     *)
(*   - engagement scores are whole numbers;                                *)
(*   - a cosine similarity is kept times SimScale, rounded towards zero;   *)
(*   - every score of a recommendation is kept times                       *)
(*     SimScale * WeightScale * HybridScale, in which unit the products    *)
(*     and sums of the code are exact.                                     *)
(* SimScale is small enough for the products to stay within 32 bits and   *)
(* large enough for every positive cosine of the vectors drawn here to     *)
(* stay positive.                                                          *)
(* Vectors have length 0, 2 or 3: numpy broadcasts a length-1 operand, so  *)
(* "the lengths differ" means "ValueError" only away from length 1.        *)
(***************************************************************************)
EXTENDS Integers, Sequences, FiniteSets, TLC

\* ------------------------------------------------------------------------
\* Bounds of the model
\* ------------------------------------------------------------------------
MaxInteractions == 4
MaxLimit == 2
\* the interaction records another writer adds while a request runs
MaxAppends == 1

\* ------------------------------------------------------------------------
\* Stored data: identifiers and the values records are drawn from
\* ------------------------------------------------------------------------
Users == {"u1", "u2", "u3"}
\* rows of content_feature_vectors come back in this order
ContentOrder == <<"c1", "c2", "c3">>
Contents == {ContentOrder[i] : i \in DOMAIN ContentOrder}
Requests == {1, 2}

None == "None"
Missing == "Missing"

WeightScale == 2
SimScale == 100
HybridScale == 10
content_based_weight == 6
collaborative_weight == 4
TopSimilarUsers == 10

\* RecommendationEngine.__init__: self.interaction_weights, read with
\* .get(interaction_type, 1.0)
interaction_weights(type) ==
    CASE type = "view" -> 2
      [] type = "complete" -> 6
      [] type = "like" -> 4
      [] type = "bookmark" -> 5
      [] OTHER -> 2

\* ------------------------------------------------------------------------
\* Sequences
\* ------------------------------------------------------------------------
Reverse(s) == [i \in 1..Len(s) |-> s[Len(s) + 1 - i]]

Range(s) == {s[i] : i \in DOMAIN s}

\* the slice s[:n]
Take(s, n) ==
    IF n >= 0 THEN SubSeq(s, 1, IF n < Len(s) THEN n ELSE Len(s))
    ELSE SubSeq(s, 1, Len(s) + n)

\* the sort without reverse=True
RECURSIVE SortByScoreAscending(_)
SortByScoreAscending(s) ==
    IF Len(s) <= 1 THEN s
    ELSE LET rest == SortByScoreAscending(Tail(s))
             x == Head(s)
             k == Cardinality({i \in DOMAIN rest : rest[i].score < x.score})
         IN SubSeq(rest, 1, k) \o <<x>> \o SubSeq(rest, k + 1, Len(rest))

\* list.sort(key=lambda x: x.score, reverse=True): stable, equal scores keep
\* their order
RECURSIVE SortByScore(_)
SortByScore(s) ==
    IF Len(s) <= 1 THEN s
    ELSE LET rest == SortByScore(Tail(s))
             x == Head(s)
             \* x goes before the first element of rest with a score not above its own
             k == Cardinality({i \in DOMAIN rest : rest[i].score > x.score})
         IN SubSeq(rest, 1, k) \o <<x>> \o SubSeq(rest, k + 1, Len(rest))

\* ------------------------------------------------------------------------
\* Vectors
\* ------------------------------------------------------------------------
RECURSIVE Dot(_, _)
Dot(a, b) ==
    IF a = <<>> THEN 0 ELSE a[1] * b[1] + Dot(Tail(a), Tail(b))

Scaled(v, w) == [i \in DOMAIN v |-> v[i] * w]

VecAdd(a, b) == [i \in DOMAIN a |-> a[i] + b[i]]

RECURSIVE SqrtBetween(_, _, _)
SqrtBetween(n, lo, hi) ==
    IF lo >= hi THEN lo
    ELSE LET mid == (lo + hi + 1) \div 2
         IN IF mid * mid <= n THEN SqrtBetween(n, mid, hi)
                              ELSE SqrtBetween(n, lo, mid - 1)

Abs(x) == IF x < 0 THEN -x ELSE x

\* _calculate_similarity_score: 0.0 for an empty operand, else
\* 1 - scipy.spatial.distance.cosine(vec1, vec2): ValueError when the lengths
\* differ, nan when an operand has norm 0
Num(v) == [kind |-> "num", val |-> v]

_calculate_similarity_score(vec1, vec2) ==
    IF vec1 = <<>> \/ vec2 = <<>> THEN Num(0)
    ELSE IF Len(vec1) # Len(vec2) THEN [kind |-> "ValueError", val |-> 0]
    ELSE LET d == Dot(vec1, vec2)
             nn == Dot(vec1, vec1) * Dot(vec2, vec2)
         IN IF nn = 0 THEN [kind |-> "nan", val |-> 0]
            ELSE Num((IF d < 0 THEN -1 ELSE 1)
                     * SqrtBetween((d * d * SimScale * SimScale) \div nn, 0, SimScale))

\* a similarity as a score of a recommendation
SimAsScore(val) == val * WeightScale * HybridScale

\* ------------------------------------------------------------------------
\* Records
\* ------------------------------------------------------------------------
\* schemas.RecommendationResponse
RecommendationResponse(content_id, score, recommendation_type, metadata) ==
    [content_id |-> content_id, score |-> score,
     recommendation_type |-> recommendation_type, metadata |-> metadata]

\* models.RecommendationHistory as _record_recommendations builds it
RecommendationHistory(user_id, rec) ==
    [user_id |-> user_id, content_id |-> rec.content_id,
     recommendation_type |-> rec.recommendation_type, score |-> rec.score,
     metadata |-> rec.metadata, is_clicked |-> FALSE]

\* the loop of _record_recommendations: the rows it adds to the session
RecordedRowsButLast(user_id, recommendations) ==
    [k \in 1..(Len(recommendations) - 1) |-> RecommendationHistory(user_id, recommendations[k])]

RecordedRows(user_id, recommendations) ==
    [k \in DOMAIN recommendations |-> RecommendationHistory(user_id, recommendations[k])]

ContentIds(rows) == {rows[i].content_id : i \in DOMAIN rows}

\* the weight of one interaction: interaction_weights.get(type, 1.0) * engagement_score
InteractionWeight(i) == interaction_weights(i.interaction_type) * i.engagement_score

\* ------------------------------------------------------------------------
\* Profile builder
\* ------------------------------------------------------------------------
\* a preference vectorizer that yields a vector
PreferenceVectorImplemented(user_prefs) == [present |-> TRUE, vec |-> <<0, 1>>]

\* _calculate_preference_vector: the placeholder returns None
_calculate_preference_vector(user_prefs) == [present |-> FALSE, vec |-> <<>>]

\* a loop that adds the weight of an interaction without a stored vector to
\* total_weight
RECURSIVE ProfileLoopCountingSkipped(_, _, _, _)
ProfileLoopCountingSkipped(inter, k, content_vectors, acc) ==
    IF k > Len(inter) \/ acc.raised THEN acc
    ELSE LET i == inter[k]
             cv == SelectSeq(content_vectors, LAMBDA v : v.content_id = i.content_id)
             weight == InteractionWeight(i)
         IN IF cv = <<>>
            THEN ProfileLoopCountingSkipped(inter, k + 1, content_vectors,
                    [acc EXCEPT !.total = @ + weight])
            ELSE LET vector == cv[1].feature_vector
                 IN IF ~acc.has
                    THEN ProfileLoopCountingSkipped(inter, k + 1, content_vectors,
                            [has |-> TRUE, vec |-> Scaled(vector, weight),
                             total |-> acc.total + weight, raised |-> FALSE])
                    ELSE IF Len(vector) # Len(acc.vec)
                    THEN [acc EXCEPT !.raised = TRUE]
                    ELSE ProfileLoopCountingSkipped(inter, k + 1, content_vectors,
                            [has |-> TRUE, vec |-> VecAdd(acc.vec, Scaled(vector, weight)),
                             total |-> acc.total + weight, raised |-> FALSE])

\* the loop of _calculate_user_profile over the interactions, from the k-th on;
\* acc = [has, vec, total, raised]: profile_vector is not None, its value,
\* total_weight, and whether numpy raised ValueError
RECURSIVE ProfileLoop(_, _, _, _)
ProfileLoop(inter, k, content_vectors, acc) ==
    IF k > Len(inter) \/ acc.raised THEN acc
    ELSE LET i == inter[k]
             cv == SelectSeq(content_vectors, LAMBDA v : v.content_id = i.content_id)
         IN IF cv = <<>> THEN ProfileLoop(inter, k + 1, content_vectors, acc)
            ELSE LET vector == cv[1].feature_vector
                     weight == InteractionWeight(i)
                 IN IF ~acc.has
                    THEN ProfileLoop(inter, k + 1, content_vectors,
                            [has |-> TRUE, vec |-> Scaled(vector, weight),
                             total |-> acc.total + weight, raised |-> FALSE])
                    ELSE IF Len(vector) # Len(acc.vec)
                    THEN [acc EXCEPT !.raised = TRUE]
                    ELSE ProfileLoop(inter, k + 1, content_vectors,
                            [has |-> TRUE, vec |-> VecAdd(acc.vec, Scaled(vector, weight)),
                             total |-> acc.total + weight, raised |-> FALSE])

\* _calculate_user_profile after its query: the profile is vec / den (vec is
\* the weighted sum in units of 1/WeightScale, den the divisor applied to it);
\* empty when vec = <<>>
_calculate_user_profile(interactions, user_prefs, content_vectors) ==
    IF interactions = <<>> /\ ~user_prefs
    THEN [raised |-> FALSE, vec |-> <<>>, den |-> WeightScale, divided |-> FALSE]
    ELSE LET acc == ProfileLoop(interactions, 1, content_vectors,
                        [has |-> FALSE, vec |-> <<>>, total |-> 0, raised |-> FALSE])
             divided == acc.has /\ acc.total > 0
             pref == IF user_prefs THEN _calculate_preference_vector(user_prefs)
                     ELSE [present |-> FALSE, vec |-> <<>>]
             den == IF divided THEN acc.total ELSE WeightScale
         IN IF acc.raised
            THEN [raised |-> TRUE, vec |-> <<>>, den |-> WeightScale, divided |-> FALSE]
            ELSE IF pref.present /\ pref.vec # <<>>
            THEN \* lines 298-305, unreachable while the placeholder returns None
                 IF ~acc.has
                 THEN [raised |-> FALSE, vec |-> pref.vec, den |-> 1, divided |-> FALSE]
                 ELSE IF Len(pref.vec) # Len(acc.vec)
                 THEN [raised |-> TRUE, vec |-> <<>>, den |-> WeightScale, divided |-> FALSE]
                 ELSE [raised |-> FALSE, vec |-> VecAdd(acc.vec, Scaled(pref.vec, den)),
                       den |-> 2 * den, divided |-> divided]
            ELSE [raised |-> FALSE,
                  vec |-> IF acc.has THEN acc.vec ELSE <<>>,
                  den |-> IF divided THEN acc.total ELSE WeightScale,
                  divided |-> divided]

\* ------------------------------------------------------------------------
\* Content-based scorer
\* ------------------------------------------------------------------------
ContentBasedMetadata(similarity) ==
    [similarity_score |-> similarity, recommendation_source |-> "content_based"]

\* the scoring loop keeping the candidates of similarity 0 too
RECURSIVE ScoreLoopNotNegative(_, _, _, _)
ScoreLoopNotNegative(user_profile, content_vectors, seen, k) ==
    IF k > Len(content_vectors) THEN [raised |-> FALSE, recs |-> <<>>]
    ELSE LET c == content_vectors[k]
             rest == ScoreLoopNotNegative(user_profile, content_vectors, seen, k + 1)
         IN IF c.content_id \in seen THEN rest
            ELSE LET similarity == _calculate_similarity_score(user_profile, c.feature_vector)
                 IN IF similarity.kind = "ValueError"
                    THEN [raised |-> TRUE, recs |-> <<>>]
                    ELSE IF rest.raised THEN rest
                    ELSE IF similarity.kind = "num" /\ similarity.val >= 0
                    THEN [raised |-> FALSE,
                          recs |-> <<RecommendationResponse(c.content_id,
                                        SimAsScore(similarity.val), "content_based",
                                        ContentBasedMetadata(SimAsScore(similarity.val)))>>
                                   \o rest.recs]
                    ELSE rest

\* the scoring loop of _get_content_based_recommendations, from the k-th
\* candidate on: [raised, recs]
RECURSIVE ScoreLoop(_, _, _, _)
ScoreLoop(user_profile, content_vectors, seen, k) ==
    IF k > Len(content_vectors) THEN [raised |-> FALSE, recs |-> <<>>]
    ELSE LET c == content_vectors[k]
             rest == ScoreLoop(user_profile, content_vectors, seen, k + 1)
         IN IF c.content_id \in seen THEN rest
            ELSE LET similarity == _calculate_similarity_score(user_profile, c.feature_vector)
                 IN IF similarity.kind = "ValueError"
                    THEN [raised |-> TRUE, recs |-> <<>>]
                    ELSE IF rest.raised THEN rest
                    ELSE IF similarity.kind = "num" /\ similarity.val > 0
                    THEN [raised |-> FALSE,
                          recs |-> <<RecommendationResponse(c.content_id,
                                        SimAsScore(similarity.val), "content_based",
                                        ContentBasedMetadata(SimAsScore(similarity.val)))>>
                                   \o rest.recs]
                    ELSE rest

\* the scorer without the skip of already interacted content
ScoreCandidatesNoSkip(user_profile, content_vectors, interactions, limit) ==
    LET r == ScoreLoop(user_profile, content_vectors, {}, 1)
    IN [raised |-> r.raised, recs |-> Take(SortByScore(r.recs), limit)]

\* _get_content_based_recommendations from the profile on: score, sort, limit
ScoreCandidates(user_profile, content_vectors, interactions, limit) ==
    LET r == ScoreLoop(user_profile, content_vectors, ContentIds(interactions), 1)
    IN [raised |-> r.raised, recs |-> Take(SortByScore(r.recs), limit)]

\* ------------------------------------------------------------------------
\* Collaborative scorer
\* ------------------------------------------------------------------------
\* sorted(content_ids): the anchor set in ascending order of id
SortedIds(content_ids) ==
    SelectSeq(ContentOrder, LAMBDA c : c \in content_ids)

RECURSIVE SumScores(_)
SumScores(s) == IF s = <<>> THEN 0 ELSE s[1] + SumScores(Tail(s))

\* the weights of the interactions with one content added up
SumOfWeights(interactions, content_id) ==
    LET mine == SelectSeq(interactions, LAMBDA i : i.content_id = content_id)
    IN SumScores([k \in DOMAIN mine |-> InteractionWeight(mine[k])])

\* the value the loop of _create_interaction_vector leaves at one content:
\* the weight of the last interaction of the list with it, 0.0 without one
LastWeight(interactions, content_id) ==
    LET mine == SelectSeq(interactions, LAMBDA i : i.content_id = content_id)
    IN IF mine = <<>> THEN 0 ELSE InteractionWeight(mine[Len(mine)])

_create_interaction_vector(interactions, content_ids) ==
    LET ids == SortedIds(content_ids)
    IN [k \in 1..Len(ids) |-> LastWeight(interactions, ids[k])]

\* the keys of a dict filled from rows, in insertion order: each value once,
\* at its first occurrence
RECURSIVE FirstOccurrences(_)
FirstOccurrences(keys) ==
    IF keys = <<>> THEN <<>>
    ELSE LET init == FirstOccurrences(SubSeq(keys, 1, Len(keys) - 1))
             last == keys[Len(keys)]
         IN IF last \in Range(init) THEN init ELSE Append(init, last)

\* _find_similar_users returning every user of positive similarity
SimilarUsersFromUncut(user_interactions, other_users_interactions) ==
    LET interacted_content_ids == ContentIds(user_interactions)
        others == FirstOccurrences([k \in DOMAIN other_users_interactions |->
                                       other_users_interactions[k].user_id])
        target_user_vector ==
            _create_interaction_vector(user_interactions, interacted_content_ids)
        Sim(u) == _calculate_similarity_score(
                      target_user_vector,
                      _create_interaction_vector(
                          SelectSeq(other_users_interactions, LAMBDA i : i.user_id = u),
                          interacted_content_ids))
        kept == SelectSeq(others, LAMBDA u : Sim(u).kind = "num" /\ Sim(u).val > 0)
        user_similarities == [k \in DOMAIN kept |-> [user_id |-> kept[k], score |-> Sim(kept[k]).val]]
    IN SortByScore(user_similarities)

\* _find_similar_users after its query returned other_users_interactions
SimilarUsersFrom(user_interactions, other_users_interactions) ==
    LET interacted_content_ids == ContentIds(user_interactions)
        others == FirstOccurrences([k \in DOMAIN other_users_interactions |->
                                       other_users_interactions[k].user_id])
        target_user_vector ==
            _create_interaction_vector(user_interactions, interacted_content_ids)
        Sim(u) == _calculate_similarity_score(
                      target_user_vector,
                      _create_interaction_vector(
                          SelectSeq(other_users_interactions, LAMBDA i : i.user_id = u),
                          interacted_content_ids))
        kept == SelectSeq(others, LAMBDA u : Sim(u).kind = "num" /\ Sim(u).val > 0)
        user_similarities == [k \in DOMAIN kept |-> [user_id |-> kept[k], score |-> Sim(kept[k]).val]]
    IN Take(SortByScore(user_similarities), TopSimilarUsers)

CollaborativeMetadata(score) ==
    [collaborative_score |-> score, recommendation_source |-> "collaborative"]

\* the aggregation counting, for each similar user and content, the last
\* interaction only
RecommendationsFromLastOnly(user_interactions, similar_users, similar_users_interactions) ==
    LET user_content_ids == ContentIds(user_interactions)
        Weight(u) == (CHOOSE su \in Range(similar_users) : su.user_id = u).score
        Same(i) == SelectSeq(similar_users_interactions,
                             LAMBDA j : j.user_id = i.user_id /\ j.content_id = i.content_id)
        counted == SelectSeq(similar_users_interactions,
                             LAMBDA i : i.content_id \notin user_content_ids
                                        /\ i = Same(i)[Len(Same(i))])
        keys == FirstOccurrences([k \in DOMAIN counted |-> counted[k].content_id])
        Score(c) == LET mine == SelectSeq(counted, LAMBDA i : i.content_id = c)
                    IN SumScores([k \in DOMAIN mine |->
                           Weight(mine[k].user_id) * InteractionWeight(mine[k]) * HybridScale])
    IN [k \in DOMAIN keys |->
           RecommendationResponse(keys[k], Score(keys[k]), "collaborative",
                                  CollaborativeMetadata(Score(keys[k])))]

\* _get_recommendations_from_similar_users after its two queries: the target
\* user's interactions as read there, and the similar users' interactions
RecommendationsFrom(user_interactions, similar_users, similar_users_interactions) ==
    LET user_content_ids == ContentIds(user_interactions)
        Weight(u) == (CHOOSE su \in Range(similar_users) : su.user_id = u).score
        counted == SelectSeq(similar_users_interactions,
                             LAMBDA i : i.content_id \notin user_content_ids)
        keys == FirstOccurrences([k \in DOMAIN counted |-> counted[k].content_id])
        Score(c) == LET mine == SelectSeq(counted, LAMBDA i : i.content_id = c)
                    IN SumScores([k \in DOMAIN mine |->
                           Weight(mine[k].user_id) * InteractionWeight(mine[k]) * HybridScale])
    IN [k \in DOMAIN keys |->
           RecommendationResponse(keys[k], Score(keys[k]), "collaborative",
                                  CollaborativeMetadata(Score(keys[k])))]

\* ------------------------------------------------------------------------
\* Hybrid merger
\* ------------------------------------------------------------------------
\* a merger that appends every collaborative recommendation
IndexOfNever(entries, content_id) == 0

IndexOf(entries, content_id) ==
    IF \E k \in DOMAIN entries : entries[k].content_id = content_id
    THEN CHOOSE k \in DOMAIN entries : entries[k].content_id = content_id
    ELSE 0

\* merged_recs after the first loop: one entry per content id, at the place
\* of its first occurrence, holding the last occurrence's values
RECURSIVE ContentBasedEntries(_)
ContentBasedEntries(content_based_recs) ==
    IF content_based_recs = <<>> THEN <<>>
    ELSE LET init == ContentBasedEntries(SubSeq(content_based_recs, 1, Len(content_based_recs) - 1))
             rec == content_based_recs[Len(content_based_recs)]
             entry == [content_id |-> rec.content_id, content_based_score |-> rec.score,
                       collaborative_score |-> 0, metadata |-> rec.metadata]
             k == IndexOf(init, rec.content_id)
         IN IF k = 0 THEN Append(init, entry) ELSE [init EXCEPT ![k] = entry]

\* merged_recs after a second loop that keeps the content-based value of a
\* metadata key both sources have
RECURSIVE MergedEntriesKeepingFirst(_, _)
MergedEntriesKeepingFirst(content_based_recs, collaborative_recs) ==
    IF collaborative_recs = <<>> THEN ContentBasedEntries(content_based_recs)
    ELSE LET init == MergedEntriesKeepingFirst(content_based_recs,
                         SubSeq(collaborative_recs, 1, Len(collaborative_recs) - 1))
             rec == collaborative_recs[Len(collaborative_recs)]
             k == IndexOf(init, rec.content_id)
         IN IF k = 0
            THEN Append(init, [content_id |-> rec.content_id, content_based_score |-> 0,
                               collaborative_score |-> rec.score, metadata |-> rec.metadata])
            ELSE [init EXCEPT ![k] = [@ EXCEPT !.collaborative_score = rec.score,
                                                !.metadata = @ @@ rec.metadata]]

\* merged_recs after the second loop
RECURSIVE MergedEntries(_, _)
MergedEntries(content_based_recs, collaborative_recs) ==
    IF collaborative_recs = <<>> THEN ContentBasedEntries(content_based_recs)
    ELSE LET init == MergedEntries(content_based_recs,
                                   SubSeq(collaborative_recs, 1, Len(collaborative_recs) - 1))
             rec == collaborative_recs[Len(collaborative_recs)]
             k == IndexOf(init, rec.content_id)
         IN IF k = 0
            THEN Append(init, [content_id |-> rec.content_id, content_based_score |-> 0,
                               collaborative_score |-> rec.score, metadata |-> rec.metadata])
            ELSE [init EXCEPT ![k] = [@ EXCEPT !.collaborative_score = rec.score,
                                                !.metadata = rec.metadata @@ @]]

\* the two weights exchanged
HybridScoreSwapped(data) ==
    (data.content_based_score * collaborative_weight
     + data.collaborative_score * content_based_weight) \div HybridScale

HybridScore(data) ==
    (data.content_based_score * content_based_weight
     + data.collaborative_score * collaborative_weight) \div HybridScale

HybridRecommendation(data) ==
    RecommendationResponse(data.content_id, HybridScore(data), "hybrid",
        data.metadata @@ [hybrid_score |-> HybridScore(data),
                          content_based_score |-> data.content_based_score,
                          collaborative_score |-> data.collaborative_score,
                          recommendation_source |-> "hybrid"])

_hybrid_merge_recommendations(content_based_recs, collaborative_recs, limit) ==
    LET merged_recs == MergedEntries(content_based_recs, collaborative_recs)
        recommendations == [k \in DOMAIN merged_recs |-> HybridRecommendation(merged_recs[k])]
    IN Take(SortByScore(recommendations), limit)

\* ------------------------------------------------------------------------
\* Stored data
\* ------------------------------------------------------------------------
Interaction(u, c, t, e) ==
    [user_id |-> u, content_id |-> c, interaction_type |-> t, engagement_score |-> e]

\* the interaction records a table is drawn from, in order of creation
InteractionChoices ==
    << Interaction("u1", "c1", "complete", 1),
       Interaction("u2", "c1", "like", 1),
       Interaction("u2", "c2", "complete", 1),
       Interaction("u3", "c1", "view", 1),
       Interaction("u3", "c3", "bookmark", 1),
       Interaction("u1", "c1", "view", 0),
       Interaction("u2", "c3", "view", 0),
       Interaction("u1", "c2", "like", 1) >>

\* the k-th smallest element of a set of numbers
RECURSIVE Kth(_, _)
Kth(S, k) ==
    LET m == CHOOSE x \in S : \A y \in S : x <= y
    IN IF k = 1 THEN m ELSE Kth(S \ {m}, k - 1)

Tables ==
    { [k \in 1..Cardinality(S) |-> InteractionChoices[Kth(S, k)]] :
        S \in {T \in SUBSET DOMAIN InteractionChoices : Cardinality(T) <= MaxInteractions} }

\* ContentFeatureVector.metadata of each content item
Catalogue(c) ==
    CASE c = "c1" -> [content_type |-> "story", subject |-> "math", difficulty_level |-> "easy"]
      [] c = "c2" -> [content_type |-> "video", subject |-> "math", difficulty_level |-> "easy"]
      [] OTHER    -> [content_type |-> "story", subject |-> "art", difficulty_level |-> Missing]

\* the feature vectors a content item may have; <<>> with present = FALSE is
\* "no row"
NoRow == [present |-> FALSE, vec |-> <<>>]
Row(v) == [present |-> TRUE, vec |-> v]
VectorChoices(c) ==
    CASE c = "c1" -> {Row(<<1, 0>>), NoRow}
      [] c = "c2" -> {Row(<<1, 1>>), Row(<<1, 0, 0>>), NoRow}
      [] OTHER    -> {Row(<<0, 1>>), Row(<<1, 0>>), Row(<<0, 0>>)}

VectorTable(choice) ==
    LET present == SelectSeq(ContentOrder, LAMBDA c : choice[c].present)
    IN [k \in DOMAIN present |->
           [content_id |-> present[k], feature_vector |-> choice[present[k]].vec,
            metadata |-> Catalogue(present[k])]]

VectorTables ==
    {VectorTable(choice) :
        choice \in [c1 : VectorChoices("c1"), c2 : VectorChoices("c2"), c3 : VectorChoices("c3")]}

\* the filter triples a request may carry: content_type, subject, difficulty_level
FilterChoices ==
    { [content_type |-> None, subject |-> None, difficulty_level |-> None],
      [content_type |-> "story", subject |-> None, difficulty_level |-> None],
      [content_type |-> None, subject |-> "math", difficulty_level |-> "easy"] }

Limits == 1..MaxLimit

\* ------------------------------------------------------------------------
\* State
\* ------------------------------------------------------------------------
VARIABLES
    interactions,   \* table user_content_interactions, in order of creation
    vectors,        \* table content_feature_vectors
    prefs,          \* the users with a row in user_preferences
    history,        \* table recommendation_history, committed rows
    pc,             \* where each request is in get_recommendations
    args,           \* the arguments of each request
    loc,            \* the local variables of each request
    session,        \* the rows each request's session holds, added and not committed
    outcome,        \* what each request's caller received
    fault           \* the storage call of each request that failed: "", "query", "commit"

vars == <<interactions, vectors, prefs, history, pc, args, loc, session, outcome, fault>>

Truthy(x) == x \notin {None, ""}

\* ------------------------------------------------------------------------
\* Queries
\* ------------------------------------------------------------------------
\* _get_user_preferences: the row, or None
_get_user_preferences(user_id) == user_id \in prefs

\* _get_user_interactions: ordered by created_at descending
_get_user_interactions(user_id) ==
    Reverse(SelectSeq(interactions, LAMBDA i : i.user_id = user_id))

\* metadata[key].astext == value: no match when the key is missing
MetadataMatches(metadata, key, value) ==
    metadata[key] # Missing /\ metadata[key] = value

\* the query filtering on content_type alone
ContentFeatureVectorsByType(content_type, subject, difficulty_level) ==
    LET rows == SelectSeq(vectors, LAMBDA v :
                    Truthy(content_type) => MetadataMatches(v.metadata, "content_type", content_type))
    IN [k \in DOMAIN rows |->
           [content_id |-> rows[k].content_id, feature_vector |-> rows[k].feature_vector]]

\* _get_content_feature_vectors: {content_id: feature_vector} of the rows
\* that match every filter given
_get_content_feature_vectors(content_type, subject, difficulty_level) ==
    LET rows == SelectSeq(vectors, LAMBDA v :
                    /\ Truthy(content_type) => MetadataMatches(v.metadata, "content_type", content_type)
                    /\ Truthy(subject) => MetadataMatches(v.metadata, "subject", subject)
                    /\ Truthy(difficulty_level) =>
                           MetadataMatches(v.metadata, "difficulty_level", difficulty_level))
    IN [k \in DOMAIN rows |->
           [content_id |-> rows[k].content_id, feature_vector |-> rows[k].feature_vector]]

\* the query of _calculate_user_profile: the vectors of the interacted content
InteractedContentVectors(cb_interactions) ==
    LET rows == SelectSeq(vectors, LAMBDA v : v.content_id \in ContentIds(cb_interactions))
    IN [k \in DOMAIN rows |->
           [content_id |-> rows[k].content_id, feature_vector |-> rows[k].feature_vector]]

\* the query of _find_similar_users
OtherUsersInteractions(user_id, interacted_content_ids) ==
    SelectSeq(interactions, LAMBDA i :
        i.content_id \in interacted_content_ids /\ i.user_id # user_id)

\* the second query of _get_recommendations_from_similar_users
SimilarUsersInteractions(similar_users) ==
    SelectSeq(interactions, LAMBDA i :
        i.user_id \in {similar_users[k].user_id : k \in DOMAIN similar_users})

\* ------------------------------------------------------------------------
\* get_recommendations, one action per stretch between two awaited calls
\* ------------------------------------------------------------------------
NoLocals ==
    [user_prefs |-> FALSE, interactions |-> <<>>, content_vectors |-> <<>>,
     user_profile |-> [raised |-> FALSE, vec |-> <<>>, den |-> WeightScale, divided |-> FALSE],
     content_based_recs |-> <<>>, user_interactions |-> <<>>, similar_users |-> <<>>,
     seen_interactions |-> <<>>, collab_recs |-> <<>>, final_recs |-> <<>>]

NoOutcome == [kind |-> "none", value |-> <<>>, error |-> "", at |-> ""]

\* the user requests are made for; the other users are the crowd
Targets == {"u1"}

Arguments == [user_id : Targets, filters : FilterChoices, limit : Limits]

\* an exception leaves get_recommendations: nothing the session holds is committed
Raise(r, error) ==
    /\ outcome' = [outcome EXCEPT ![r] =
                       [kind |-> "raised", value |-> <<>>, error |-> error, at |-> pc[r]]]
    /\ pc' = [pc EXCEPT ![r] = "done"]
    /\ session' = [session EXCEPT ![r] = <<>>]

Goto(r, label) ==
    /\ pc' = [pc EXCEPT ![r] = label]
    /\ UNCHANGED <<session, outcome, fault>>

\* the preference read creating the record it does not find
GetUserPreferencesCreating(r) ==
    /\ pc[r] = "get_user_preferences"
    /\ loc' = [loc EXCEPT ![r].user_prefs = TRUE]
    /\ prefs' = prefs \cup {args[r].user_id}
    /\ Goto(r, "cb_get_user_interactions")
    /\ UNCHANGED <<interactions, vectors, history, args>>

\* line 62
GetUserPreferences(r) ==
    /\ pc[r] = "get_user_preferences"
    /\ loc' = [loc EXCEPT ![r].user_prefs = _get_user_preferences(args[r].user_id)]
    /\ Goto(r, "cb_get_user_interactions")
    /\ UNCHANGED <<interactions, vectors, prefs, history, args>>

\* the scorer raising where the code returns [] for a user without signal
ContentBasedInteractionsRaising(r) ==
    /\ pc[r] = "cb_get_user_interactions"
    /\ LET read == _get_user_interactions(args[r].user_id)
       IN /\ loc' = [loc EXCEPT ![r].interactions = read]
          /\ IF read = <<>> /\ ~loc[r].user_prefs
             THEN Raise(r, "ValueError") /\ UNCHANGED fault
             ELSE Goto(r, "cb_get_content_feature_vectors")
    /\ UNCHANGED <<interactions, vectors, prefs, history, args>>

\* lines 162-164
ContentBasedInteractions(r) ==
    /\ pc[r] = "cb_get_user_interactions"
    /\ LET read == _get_user_interactions(args[r].user_id)
       IN /\ loc' = [loc EXCEPT ![r].interactions = read]
          /\ IF read = <<>> /\ ~loc[r].user_prefs
             THEN Goto(r, "cf_get_user_interactions")
             ELSE Goto(r, "cb_get_content_feature_vectors")
    /\ UNCHANGED <<interactions, vectors, prefs, history, args>>

\* lines 167-173
ContentBasedVectors(r) ==
    /\ pc[r] = "cb_get_content_feature_vectors"
    /\ LET f == args[r].filters
           read == _get_content_feature_vectors(f.content_type, f.subject, f.difficulty_level)
       IN /\ loc' = [loc EXCEPT ![r].content_vectors = read]
          /\ IF read = <<>>
             THEN Goto(r, "cf_get_user_interactions")
             ELSE Goto(r, "cb_calculate_user_profile")
    /\ UNCHANGED <<interactions, vectors, prefs, history, args>>

\* lines 176-209, _calculate_user_profile with its query included
ContentBasedScore(r) ==
    /\ pc[r] = "cb_calculate_user_profile"
    /\ LET user_profile == _calculate_user_profile(loc[r].interactions, loc[r].user_prefs,
                               InteractedContentVectors(loc[r].interactions))
           scored == ScoreCandidates(user_profile.vec, loc[r].content_vectors,
                                     loc[r].interactions, args[r].limit)
       IN IF user_profile.raised \/ scored.raised
          THEN /\ Raise(r, "ValueError")
               /\ loc' = [loc EXCEPT ![r].user_profile = user_profile]
               /\ UNCHANGED fault
          ELSE /\ loc' = [loc EXCEPT ![r].user_profile = user_profile,
                                     ![r].content_based_recs = scored.recs]
               /\ Goto(r, "cf_get_user_interactions")
    /\ UNCHANGED <<interactions, vectors, prefs, history, args>>

\* the scorer falling back on every other user for a user without interactions
CollaborativeInteractionsColdStart(r) ==
    /\ pc[r] = "cf_get_user_interactions"
    /\ LET read == _get_user_interactions(args[r].user_id)
           others == FirstOccurrences([k \in DOMAIN interactions |-> interactions[k].user_id])
       IN IF read = <<>>
          THEN /\ loc' = [loc EXCEPT ![r].user_interactions = read,
                                     ![r].similar_users =
                                         [k \in DOMAIN others |-> [user_id |-> others[k], score |-> SimScale]]]
               /\ Goto(r, "cf_seen_interactions")
          ELSE /\ loc' = [loc EXCEPT ![r].user_interactions = read]
               /\ Goto(r, "cf_find_similar_users")
    /\ UNCHANGED <<interactions, vectors, prefs, history, args>>

\* lines 330-332
CollaborativeInteractions(r) ==
    /\ pc[r] = "cf_get_user_interactions"
    /\ LET read == _get_user_interactions(args[r].user_id)
       IN /\ loc' = [loc EXCEPT ![r].user_interactions = read]
          /\ IF read = <<>>
             THEN Goto(r, "hybrid_merge")
             ELSE Goto(r, "cf_find_similar_users")
    /\ UNCHANGED <<interactions, vectors, prefs, history, args>>

\* lines 335-337, _find_similar_users with its query included
_find_similar_users(r) ==
    /\ pc[r] = "cf_find_similar_users"
    /\ LET similar_users ==
               SimilarUsersFrom(loc[r].user_interactions,
                   OtherUsersInteractions(args[r].user_id, ContentIds(loc[r].user_interactions)))
       IN /\ loc' = [loc EXCEPT ![r].similar_users = similar_users]
          /\ IF similar_users = <<>>
             THEN Goto(r, "hybrid_merge")
             ELSE Goto(r, "cf_seen_interactions")
    /\ UNCHANGED <<interactions, vectors, prefs, history, args>>

\* lines 434-435: the target user's interactions, read again into the
\* user_interactions of _get_recommendations_from_similar_users
CollaborativeSeen(r) ==
    /\ pc[r] = "cf_seen_interactions"
    /\ loc' = [loc EXCEPT ![r].seen_interactions = _get_user_interactions(args[r].user_id)]
    /\ Goto(r, "cf_similar_users_interactions")
    /\ UNCHANGED <<interactions, vectors, prefs, history, args>>

\* lines 438-480 and 349-350
_get_recommendations_from_similar_users(r) ==
    /\ pc[r] = "cf_similar_users_interactions"
    /\ LET recommendations ==
               RecommendationsFrom(loc[r].seen_interactions, loc[r].similar_users,
                                   SimilarUsersInteractions(loc[r].similar_users))
       IN loc' = [loc EXCEPT ![r].collab_recs =
                      Take(SortByScore(recommendations), args[r].limit)]
    /\ Goto(r, "hybrid_merge")
    /\ UNCHANGED <<interactions, vectors, prefs, history, args>>

\* db.add writing each row through at once, before the commit is awaited
HybridMergeAutocommit(r) ==
    /\ pc[r] = "hybrid_merge"
    /\ LET final_recs == _hybrid_merge_recommendations(loc[r].content_based_recs,
                                                       loc[r].collab_recs, args[r].limit)
       IN /\ loc' = [loc EXCEPT ![r].final_recs = final_recs]
          /\ history' = history \o RecordedRows(args[r].user_id, final_recs)
    /\ pc' = [pc EXCEPT ![r] = "commit"]
    /\ UNCHANGED <<interactions, vectors, prefs, args, session, outcome, fault>>

\* a merger that leaves out the content the history already holds
HybridMergeSkippingRecommended(r) ==
    /\ pc[r] = "hybrid_merge"
    /\ LET fresh(recs) == SelectSeq(recs, LAMBDA rec : rec.content_id \notin ContentIds(history))
           final_recs == _hybrid_merge_recommendations(fresh(loc[r].content_based_recs),
                                                       fresh(loc[r].collab_recs), args[r].limit)
       IN /\ loc' = [loc EXCEPT ![r].final_recs = final_recs]
          /\ session' = [session EXCEPT ![r] = RecordedRows(args[r].user_id, final_recs)]
    /\ pc' = [pc EXCEPT ![r] = "commit"]
    /\ UNCHANGED <<interactions, vectors, prefs, history, args, outcome, fault>>

\* lines 84-88 and the loop of _record_recommendations (108-116): db.add
\* puts each row in the session
HybridMerge(r) ==
    /\ pc[r] = "hybrid_merge"
    /\ LET final_recs == _hybrid_merge_recommendations(loc[r].content_based_recs,
                                                       loc[r].collab_recs, args[r].limit)
       IN /\ loc' = [loc EXCEPT ![r].final_recs = final_recs]
          /\ session' = [session EXCEPT ![r] = RecordedRows(args[r].user_id, final_recs)]
    /\ pc' = [pc EXCEPT ![r] = "commit"]
    /\ UNCHANGED <<interactions, vectors, prefs, history, args, outcome, fault>>

\* a commit that replaces the rows of the table by those of the session
CommitOverwriting(r) ==
    /\ pc[r] = "commit"
    /\ history' = session[r]
    /\ session' = [session EXCEPT ![r] = <<>>]
    /\ outcome' = [outcome EXCEPT ![r] =
                       [kind |-> "returned", value |-> loc[r].final_recs, error |-> "", at |-> ""]]
    /\ pc' = [pc EXCEPT ![r] = "done"]
    /\ UNCHANGED <<interactions, vectors, prefs, args, loc, fault>>

\* line 117 succeeds, line 93 returns
Commit(r) ==
    /\ pc[r] = "commit"
    /\ history' = history \o session[r]
    /\ session' = [session EXCEPT ![r] = <<>>]
    /\ outcome' = [outcome EXCEPT ![r] =
                       [kind |-> "returned", value |-> loc[r].final_recs, error |-> "", at |-> ""]]
    /\ pc' = [pc EXCEPT ![r] = "done"]
    /\ UNCHANGED <<interactions, vectors, prefs, args, loc, fault>>

\* line 117 raises: nothing catches it
CommitFails(r) ==
    /\ pc[r] = "commit"
    /\ Raise(r, "CommitError")
    /\ fault' = [fault EXCEPT ![r] = "commit"]
    /\ UNCHANGED <<interactions, vectors, prefs, history, args, loc>>

\* the places where a query is awaited
IssuesQuery(r) ==
    \/ pc[r] \in {"get_user_preferences", "cb_get_user_interactions",
                  "cb_get_content_feature_vectors", "cf_get_user_interactions",
                  "cf_find_similar_users", "cf_seen_interactions",
                  "cf_similar_users_interactions"}
    \/ pc[r] = "cb_calculate_user_profile" /\ loc[r].interactions # <<>>

\* a failed query answered with the empty list instead of the exception
QueryFailsSwallowed(r) ==
    /\ IssuesQuery(r)
    /\ outcome' = [outcome EXCEPT ![r] =
                       [kind |-> "returned", value |-> <<>>, error |-> "", at |-> pc[r]]]
    /\ pc' = [pc EXCEPT ![r] = "done"]
    /\ session' = [session EXCEPT ![r] = <<>>]
    /\ fault' = [fault EXCEPT ![r] = "query"]
    /\ UNCHANGED <<interactions, vectors, prefs, history, args, loc>>

\* an awaited db.execute raises: nothing catches it
QueryFails(r) ==
    /\ IssuesQuery(r)
    /\ Raise(r, "QueryError")
    /\ fault' = [fault EXCEPT ![r] = "query"]
    /\ UNCHANGED <<interactions, vectors, prefs, history, args, loc>>

\* the request's task is cancelled while it awaits a storage call:
\* CancelledError leaves get_recommendations, and the session is closed with
\* what it holds uncommitted
Cancel(r) ==
    /\ pc[r] \notin {"off", "done"}
    /\ Raise(r, "CancelledError")
    /\ fault' = [fault EXCEPT ![r] = "cancel"]
    /\ UNCHANGED <<interactions, vectors, prefs, history, args, loc>>

\* ------------------------------------------------------------------------
\* Specifications
\* ------------------------------------------------------------------------
\* one request over stored data that does not change
Init ==
    /\ interactions \in Tables
    /\ vectors \in VectorTables
    /\ prefs \in SUBSET Targets
    /\ history = <<>>
    /\ args \in [Requests -> Arguments]
    /\ args[2] = args[1]
    /\ pc = [r \in Requests |-> IF r = 1 THEN "get_user_preferences" ELSE "off"]
    /\ loc = [r \in Requests |-> NoLocals]
    /\ session = [r \in Requests |-> <<>>]
    /\ outcome = [r \in Requests |-> NoOutcome]
    /\ fault = [r \in Requests |-> ""]

Step(r) ==
    \/ GetUserPreferences(r)
    \/ ContentBasedInteractions(r)
    \/ ContentBasedVectors(r)
    \/ ContentBasedScore(r)
    \/ CollaborativeInteractions(r)
    \/ _find_similar_users(r)
    \/ CollaborativeSeen(r)
    \/ _get_recommendations_from_similar_users(r)
    \/ HybridMerge(r)
    \/ Commit(r)
    \/ CommitFails(r)
    \/ QueryFails(r)

Next == \E r \in Requests : Step(r)

Spec == Init /\ [][Next]_vars

\* interaction records with engagement scores outside 0..1 and with a second
\* record of a user on the same content, in order of creation
EngagementChoices ==
    << Interaction("u1", "c1", "like", 1),
       Interaction("u2", "c1", "like", 1),
       Interaction("u2", "c2", "complete", 1),
       Interaction("u2", "c2", "view", 2),
       Interaction("u3", "c1", "complete", -1),
       Interaction("u1", "c3", "view", -1),
       Interaction("u3", "c2", "bookmark", 1) >>

EngagementTables ==
    { [k \in 1..Cardinality(S) |-> EngagementChoices[Kth(S, k)]] :
        S \in {T \in SUBSET DOMAIN EngagementChoices : Cardinality(T) <= MaxInteractions} }

\* feature vectors of one length
EngagementVectorTables ==
    {VectorTable(choice) :
        choice \in [c1 : {Row(<<1, 0>>)},
                    c2 : {Row(<<1, 0>>), Row(<<1, 1>>), NoRow},
                    c3 : {Row(<<0, 1>>), Row(<<0, 0>>)}]}

\* one request over stored data that does not change, engagement scores
\* unconstrained
InitEngagement ==
    /\ interactions \in EngagementTables
    /\ vectors \in EngagementVectorTables
    /\ prefs \in SUBSET Targets
    /\ history = <<>>
    /\ args \in [Requests -> Arguments]
    /\ args[2] = args[1]
    /\ pc = [r \in Requests |-> IF r = 1 THEN "get_user_preferences" ELSE "off"]
    /\ loc = [r \in Requests |-> NoLocals]
    /\ session = [r \in Requests |-> <<>>]
    /\ outcome = [r \in Requests |-> NoOutcome]
    /\ fault = [r \in Requests |-> ""]

SpecEngagement == InitEngagement /\ [][Next]_vars

\* the tables of the concurrent runs: the first rows of InteractionChoices
ConcurrentTables == {SubSeq(InteractionChoices, 1, n) : n \in 0..5}

\* two requests with the same arguments, for the same user, started together
InitConcurrent ==
    /\ interactions \in ConcurrentTables
    /\ vectors \in VectorTables
    /\ prefs \in SUBSET Targets
    /\ history = <<>>
    /\ args \in [Requests -> Arguments]
    /\ args[2] = args[1]
    /\ args[1].filters.content_type = None
    /\ pc = [r \in Requests |-> "get_user_preferences"]
    /\ loc = [r \in Requests |-> NoLocals]
    /\ session = [r \in Requests |-> <<>>]
    /\ outcome = [r \in Requests |-> NoOutcome]
    /\ fault = [r \in Requests |-> ""]

NextConcurrent == \E r \in Requests : Step(r) \/ Cancel(r)

SpecConcurrent == InitConcurrent /\ [][NextConcurrent]_vars

\* interaction records of a target user with two records on one content and
\* of more other users than _find_similar_users keeps, in order of creation
CrowdChoices ==
    << Interaction("u1", "c1", "view", 1),
       Interaction("u1", "c1", "like", 1),
       Interaction("u1", "c2", "view", 1),
       Interaction("v01", "c1", "like", 1),
       Interaction("v02", "c1", "like", 1),
       Interaction("v02", "c1", "view", 1),
       Interaction("v02", "c2", "view", 1),
       Interaction("v02", "c3", "complete", 1),
       Interaction("v03", "c3", "like", 1),
       Interaction("v04", "c1", "view", -1),
       Interaction("v05", "c1", "like", 1),
       Interaction("v06", "c1", "like", 1),
       Interaction("v07", "c1", "like", 1),
       Interaction("v08", "c1", "like", 1),
       Interaction("v09", "c1", "like", 1),
       Interaction("v10", "c1", "like", 1),
       Interaction("v11", "c1", "like", 1),
       Interaction("v12", "c1", "like", 1),
       Interaction("v13", "c1", "like", 1),
       Interaction("v13", "c3", "view", 1) >>

CrowdTables == {SubSeq(CrowdChoices, 1, n) : n \in 0..Len(CrowdChoices)}

\* one request over stored data that does not change, many other users
InitCrowd ==
    /\ interactions \in CrowdTables
    /\ vectors \in VectorTables
    /\ prefs \in SUBSET Targets
    /\ history = <<>>
    /\ args \in [Requests -> Arguments]
    /\ args[2] = args[1]
    /\ pc = [r \in Requests |-> IF r = 1 THEN "get_user_preferences" ELSE "off"]
    /\ loc = [r \in Requests |-> NoLocals]
    /\ session = [r \in Requests |-> <<>>]
    /\ outcome = [r \in Requests |-> NoOutcome]
    /\ fault = [r \in Requests |-> ""]

SpecCrowd == InitCrowd /\ [][Next]_vars

\* get_recommendations called again with the same arguments once the call
\* before it has ended
CallAgain(r) ==
    /\ pc[r] = "off"
    /\ \A q \in Requests \ {r} : pc[q] = "done"
    /\ pc' = [pc EXCEPT ![r] = "get_user_preferences"]
    /\ UNCHANGED <<interactions, vectors, prefs, history, args, loc, session, outcome, fault>>

\* two calls one after the other, same user and arguments, over stored data
\* that does not change
InitRepeated ==
    /\ interactions \in ConcurrentTables
    /\ vectors \in VectorTables
    /\ prefs \in SUBSET Targets
    /\ history = <<>>
    /\ args \in [Requests -> Arguments]
    /\ args[2] = args[1]
    /\ args[1].filters.content_type = None
    /\ pc = [r \in Requests |-> IF r = 1 THEN "get_user_preferences" ELSE "off"]
    /\ loc = [r \in Requests |-> NoLocals]
    /\ session = [r \in Requests |-> <<>>]
    /\ outcome = [r \in Requests |-> NoOutcome]
    /\ fault = [r \in Requests |-> ""]

NextRepeated == \E r \in Requests : Step(r) \/ CallAgain(r)

SpecRepeated == InitRepeated /\ [][NextRepeated]_vars

\* the interaction records added for the target user while a request runs
AppendedChoices == {Interaction(u, c, "bookmark", 1) : u \in Targets, c \in {"c2", "c3"}}

Appended == SelectSeq(interactions, LAMBDA i : i \in AppendedChoices)

\* another writer commits a new interaction record of the target user while
\* a request is between two of its storage calls; the session of the request
\* reads committed rows at each statement
RecordInteraction(row) ==
    /\ \E r \in Requests : pc[r] \notin {"off", "done"}
    /\ Len(Appended) < MaxAppends
    /\ row \notin Range(interactions)
    /\ interactions' = Append(interactions, row)
    /\ UNCHANGED <<vectors, prefs, history, pc, args, loc, session, outcome, fault>>

\* one request, interaction records of its user being added meanwhile
InitAppending ==
    /\ interactions \in ConcurrentTables
    /\ vectors \in VectorTables
    /\ prefs \in SUBSET Targets
    /\ history = <<>>
    /\ args \in [Requests -> Arguments]
    /\ args[2] = args[1]
    /\ args[1].filters.content_type = None
    /\ pc = [r \in Requests |-> IF r = 1 THEN "get_user_preferences" ELSE "off"]
    /\ loc = [r \in Requests |-> NoLocals]
    /\ session = [r \in Requests |-> <<>>]
    /\ outcome = [r \in Requests |-> NoOutcome]
    /\ fault = [r \in Requests |-> ""]

NextAppending ==
    \/ \E r \in Requests : Step(r)
    \/ \E row \in AppendedChoices : RecordInteraction(row)

SpecAppending == InitAppending /\ [][NextAppending]_vars

\* schemas.RecommendationRequest: limit: int = Field(default=10, ge=1, le=50)
limit_default == 10
limit_ge == 1
limit_le == 50

\* the limit of a request body: <<>> when the body has none
BodyLimits ==
    {<<>>} \cup {<<n>> : n \in {-1, 0, limit_le, limit_le + 1} \cup Limits}

\* a request model that accepts every limit
RecommendationRequestUnbounded(body_limit) ==
    IF body_limit = <<>> THEN [valid |-> TRUE, limit |-> limit_default]
    ELSE [valid |-> TRUE, limit |-> body_limit[1]]

\* RecommendationRequest(**body): the validated model, or ValidationError
RecommendationRequest(body_limit) ==
    IF body_limit = <<>> THEN [valid |-> TRUE, limit |-> limit_default]
    ELSE IF body_limit[1] < limit_ge \/ body_limit[1] > limit_le
    THEN [valid |-> FALSE, limit |-> body_limit[1]]
    ELSE [valid |-> TRUE, limit |-> body_limit[1]]

\* the request handler: the body is validated as a RecommendationRequest and
\* get_recommendations is called with the limit of the model
Validate(r) ==
    /\ pc[r] = "validate"
    /\ LET request == RecommendationRequest(args[r].body_limit)
       IN IF request.valid
          THEN /\ args' = [args EXCEPT ![r].limit = request.limit]
               /\ Goto(r, "get_user_preferences")
          ELSE /\ Raise(r, "ValidationError")
               /\ UNCHANGED <<args, fault>>
    /\ UNCHANGED <<interactions, vectors, prefs, history, loc>>

\* one request from its body on; limit holds the default of the signature of
\* get_recommendations until the handler passes the validated one
InitValidated ==
    /\ interactions \in ConcurrentTables
    /\ vectors \in VectorTables
    /\ prefs \in SUBSET Targets
    /\ history = <<>>
    /\ args \in [Requests -> [user_id : Targets, filters : FilterChoices,
                               limit : {limit_default}, body_limit : BodyLimits]]
    /\ args[2] = args[1]
    /\ pc = [r \in Requests |-> IF r = 1 THEN "validate" ELSE "off"]
    /\ loc = [r \in Requests |-> NoLocals]
    /\ session = [r \in Requests |-> <<>>]
    /\ outcome = [r \in Requests |-> NoOutcome]
    /\ fault = [r \in Requests |-> ""]

NextValidated == \E r \in Requests : Validate(r) \/ Step(r)

SpecValidated == InitValidated /\ [][NextValidated]_vars

\* ------------------------------------------------------------------------
\* Properties
\* ------------------------------------------------------------------------
Done(r) == pc[r] = "done"
Returned(r) == pc[r] = "done" /\ outcome[r].kind = "returned"
Alone(r) == \A q \in Requests \ {r} : pc[q] = "off"

\* the content ids the stored interactions of a user are about
SeenBy(user_id) ==
    {interactions[k].content_id : k \in {j \in DOMAIN interactions : interactions[j].user_id = user_id}}

\* C1: when the history write (the commit of _record_recommendations) fails,
\* the caller of get_recommendations still receives the list the hybrid merger
\* computed; the failure is not propagated.
C1_HistoryWriteFailureNotPropagated ==
    \A r \in Requests :
        (Done(r) /\ fault[r] = "commit") =>
            (outcome[r].kind = "returned" /\ outcome[r].value = loc[r].final_recs)

\* C2: after a successful get_recommendations call the history rows the call
\* added correspond one to one, in order, to the returned list: same user,
\* content and score, type hybrid, and no other row.
C2_HistoryMatchesReturned ==
    \A r \in Requests :
        (Returned(r) /\ Alone(r)) =>
            /\ Len(history) = Len(outcome[r].value)
            /\ \A k \in DOMAIN history :
                   /\ history[k].user_id = args[r].user_id
                   /\ history[k].content_id = outcome[r].value[k].content_id
                   /\ history[k].score = outcome[r].value[k].score
                   /\ history[k].recommendation_type = "hybrid"

C2_Witness ==
    \E r \in Requests : Returned(r) /\ Alone(r) /\ Len(outcome[r].value) = 2 /\ Len(history) = 2

\* the requests whose hybrid merger has run
Merged(r) == pc[r] = "commit" \/ (pc[r] = "done" /\ outcome[r].error \in {"", "CommitError"})

\* the score a list of recommendations gives a content id, 0 without one
ScoreIn(recs, content_id) ==
    IF \E k \in DOMAIN recs : recs[k].content_id = content_id
    THEN recs[CHOOSE k \in DOMAIN recs : recs[k].content_id = content_id].score
    ELSE 0

\* C3: every entry the hybrid merger produces has score
\* 0.6 * content_based_score + 0.4 * collaborative_score, the two being the
\* content's scores in the two input lists, 0 where it is absent.
C3_HybridScoreFormula ==
    \A r \in Requests :
        Merged(r) =>
            \A k \in DOMAIN loc[r].final_recs :
                LET rec == loc[r].final_recs[k]
                IN rec.score * 10 =
                       6 * ScoreIn(loc[r].content_based_recs, rec.content_id)
                       + 4 * ScoreIn(loc[r].collab_recs, rec.content_id)

C3_Witness ==
    \E r \in Requests :
        /\ Merged(r)
        /\ \E k \in DOMAIN loc[r].final_recs :
               LET c == loc[r].final_recs[k].content_id
               IN /\ ScoreIn(loc[r].content_based_recs, c) > 0
                  /\ ScoreIn(loc[r].collab_recs, c) > 0
                  /\ ScoreIn(loc[r].content_based_recs, c) # ScoreIn(loc[r].collab_recs, c)

\* C4: the list the hybrid merger returns, and so the list get_recommendations
\* returns, has at most limit entries and its scores never increase from one
\* entry to the next.
C4_LimitedAndSorted ==
    \A r \in Requests :
        LET SortedWithin(recs) ==
                /\ Len(recs) <= args[r].limit
                /\ \A i, j \in DOMAIN recs : i < j => recs[i].score >= recs[j].score
        IN /\ Merged(r) => SortedWithin(loc[r].final_recs)
           /\ Returned(r) => SortedWithin(outcome[r].value)

\* a returned list of two scores, the larger of which the merger met second
C4_Witness ==
    \E r \in Requests :
        /\ Returned(r)
        /\ Len(outcome[r].value) = 2
        /\ outcome[r].value[1].score > outcome[r].value[2].score
        /\ LET merged_recs == MergedEntries(loc[r].content_based_recs, loc[r].collab_recs)
           IN merged_recs[2].content_id = outcome[r].value[1].content_id

\* a request whose merger dropped an entry to keep to the limit
C4_TruncationWitness ==
    \E r \in Requests :
        /\ Returned(r)
        /\ Len(outcome[r].value) = args[r].limit
        /\ Len(MergedEntries(loc[r].content_based_recs, loc[r].collab_recs)) > args[r].limit

\* C5: no content id occurs twice in the list get_recommendations returns,
\* also when both scorers produced the content.
C5_Deduplicated ==
    \A r \in Requests :
        /\ Merged(r) =>
               \A i, j \in DOMAIN loc[r].final_recs :
                   loc[r].final_recs[i].content_id = loc[r].final_recs[j].content_id => i = j
        /\ Returned(r) =>
               \A i, j \in DOMAIN outcome[r].value :
                   outcome[r].value[i].content_id = outcome[r].value[j].content_id => i = j

C5_Witness ==
    \E r \in Requests :
        /\ Returned(r)
        /\ \E c \in ContentIds(outcome[r].value) :
               c \in ContentIds(loc[r].content_based_recs) /\ c \in ContentIds(loc[r].collab_recs)

\* C6: while the stored data does not change, no content the content-based
\* scorer, the collaborative scorer or get_recommendations returns is content
\* the target user has an interaction with.
C6_SeenContentExcluded ==
    \A r \in Requests :
        LET seen == SeenBy(args[r].user_id)
        IN /\ ContentIds(loc[r].content_based_recs) \cap seen = {}
           /\ ContentIds(loc[r].collab_recs) \cap seen = {}
           /\ ContentIds(loc[r].final_recs) \cap seen = {}
           /\ ContentIds(outcome[r].value) \cap seen = {}

\* a returned list for a user who has seen content that has a feature vector
\* and that a similar user has interacted with too
C6_Witness ==
    \E r \in Requests :
        /\ Returned(r)
        /\ outcome[r].value # <<>>
        /\ loc[r].content_based_recs # <<>>
        /\ loc[r].collab_recs # <<>>
        /\ \E c \in SeenBy(args[r].user_id) :
               /\ \E k \in DOMAIN vectors : vectors[k].content_id = c
               /\ \E k \in DOMAIN loc[r].similar_users :
                      c \in SeenBy(loc[r].similar_users[k].user_id)

\* the requests whose collaborative scorer has returned
CollaborativeReturned(r) == pc[r] = "hybrid_merge" \/ Merged(r)

\* the filters a request supplies, as (metadata key, value) pairs
SuppliedFilters(r) ==
    {kv \in {<<"content_type", args[r].filters.content_type>>,
             <<"subject", args[r].filters.subject>>,
             <<"difficulty_level", args[r].filters.difficulty_level>>} : Truthy(kv[2])}

\* C7: the collaborative scorer applies the content_type, subject and
\* difficulty_level filters supplied: every content it returns that has a
\* stored feature vector has vector metadata equal to each supplied value.
C7_CollaborativeFiltered ==
    \A r \in Requests :
        CollaborativeReturned(r) =>
            \A c \in ContentIds(loc[r].collab_recs) :
                \A k \in DOMAIN vectors :
                    vectors[k].content_id = c =>
                        \A kv \in SuppliedFilters(r) : vectors[k].metadata[kv[1]] = kv[2]

\* a user without signal: no interaction record and no preference record
NewUser(user_id) == SeenBy(user_id) = {} /\ user_id \notin prefs

\* C8: for a user with no interaction record and no preference record,
\* get_recommendations raises nothing of its own and adds no history row, and
\* returns the empty list whenever no storage call fails under it.
C8_NewUserGetsEmptyList ==
    \A r \in Requests :
        (Done(r) /\ NewUser(args[r].user_id)) =>
            /\ history = <<>>
            /\ outcome[r].error # "ValueError"
            /\ fault[r] = "" => (outcome[r].kind = "returned" /\ outcome[r].value = <<>>)

\* a new user's request returned, over stored vectors and other users' interactions
C8_Witness ==
    \E r \in Requests :
        /\ Returned(r)
        /\ NewUser(args[r].user_id)
        /\ outcome[r].value = <<>>
        /\ Len(interactions) >= 2
        /\ Len(vectors) >= 2

\* C9: the collaborative scorer returns the empty list whenever the target
\* user has no interaction record, whatever the other users' interactions.
C9_CollaborativeEmptyWithoutInteractions ==
    \A r \in Requests :
        (CollaborativeReturned(r) /\ SeenBy(args[r].user_id) = {}) =>
            loc[r].collab_recs = <<>>

\* the scorer has returned for a user without interactions, with a preference
\* record, while two other users share content
C9_Witness ==
    \E r \in Requests :
        /\ CollaborativeReturned(r)
        /\ SeenBy(args[r].user_id) = {}
        /\ args[r].user_id \in prefs
        /\ SeenBy("u2") \cap SeenBy("u3") # {}

\* C10: vectors of unequal length fail one comparison only: the request is
\* not aborted, it returns a list.
C10_DimensionMismatchDoesNotAbort ==
    \A r \in Requests :
        (Done(r) /\ fault[r] = "") =>
            (outcome[r].kind = "returned" /\ outcome[r].error # "ValueError")

\* C12: when a query of the scorers or of the profile builder fails (reading
\* preferences, interactions, feature vectors or other users' interactions),
\* get_recommendations raises: its caller receives no list, and no history
\* row is added.
C12_QueryFailureFailsRequest ==
    \A r \in Requests :
        (Done(r) /\ fault[r] = "query") =>
            /\ outcome[r].kind = "raised"
            /\ outcome[r].value = <<>>
            /\ session[r] = <<>>
            /\ Alone(r) => history = <<>>

\* the last query of the collaborative scorer failed, after the content-based
\* scorer had produced recommendations
C12_Witness ==
    \E r \in Requests :
        /\ Done(r) /\ fault[r] = "query"
        /\ outcome[r].at = "cf_similar_users_interactions"
        /\ loc[r].content_based_recs # <<>>

\* the history rows a request has persisted if the write is all or nothing
\* and follows the merger: every row of the list it returned, or none
PersistedBy(r) ==
    IF Returned(r) THEN RecordedRows(args[r].user_id, loc[r].final_recs) ELSE <<>>

\* C11: the history rows of a request are written only once the hybrid merger
\* has produced its sorted, truncated list, and all together: the history
\* holds every row of each request that returned and no row of a request that
\* is still running, has failed or was cancelled before its commit.
C11_HistoryWriteAfterMergeAllOrNothing ==
    /\ history \in {PersistedBy(1) \o PersistedBy(2), PersistedBy(2) \o PersistedBy(1)}
    /\ \A r \in Requests :
           Returned(r) =>
               /\ outcome[r].value = loc[r].final_recs
               /\ loc[r].final_recs =
                      Take(SortByScore(loc[r].final_recs), args[r].limit)

\* a request cancelled while its commit of two rows was awaited, the other
\* request having returned two
C11_Witness ==
    \E r \in Requests :
        /\ Done(r) /\ fault[r] = "cancel" /\ outcome[r].at = "commit"
        /\ Len(loc[r].final_recs) = 2
        /\ Len(history) = 2

\* the places of get_recommendations after the profile builder
AfterProfile ==
    {"cf_get_user_interactions", "cf_find_similar_users", "cf_seen_interactions",
     "cf_similar_users_interactions", "hybrid_merge", "commit"}

\* the requests whose profile builder has weighed the interactions
ProfileBuilt(r) ==
    /\ loc[r].content_vectors # <<>>
    /\ \/ pc[r] \in AfterProfile
       \/ Done(r) /\ (outcome[r].at \in AfterProfile \cup {""} \/ outcome[r].error = "ValueError")

\* C13: for every interaction the profile builder weighs, the weight it would
\* have with type complete is not smaller than the weight it would have with
\* type view at the same engagement score; the weight table is view 1.0,
\* complete 3.0, like 2.0, bookmark 2.5.
C13_CompleteWeighsNoLessThanView ==
    /\ interaction_weights("view") = 1 * WeightScale
    /\ interaction_weights("complete") = 3 * WeightScale
    /\ interaction_weights("like") = 2 * WeightScale
    /\ 2 * interaction_weights("bookmark") = 5 * WeightScale
    /\ \A r \in Requests :
           ProfileBuilt(r) =>
               \A k \in DOMAIN loc[r].interactions :
                   InteractionWeight([loc[r].interactions[k] EXCEPT !.interaction_type = "complete"])
                       >= InteractionWeight([loc[r].interactions[k] EXCEPT !.interaction_type = "view"])

\* the candidates of a request's content-based scorer: the vectors read, less
\* the content the user has interacted with
Candidates(r) ==
    SelectSeq(loc[r].content_vectors,
              LAMBDA v : v.content_id \notin ContentIds(loc[r].interactions))

\* the scenario of the claim: profile [1, 0], candidates B = [1, 0] and
\* C = [0, 1]
ProfileOneZero(r) ==
    LET p == loc[r].user_profile
    IN /\ p.divided /\ p.vec = <<p.den, 0>>
       /\ [k \in DOMAIN Candidates(r) |-> Candidates(r)[k].feature_vector]
              = << <<1, 0>>, <<0, 1>> >>

\* C14: every recommendation of the content-based scorer has a score above 0
\* and no candidate whose vector has no positive product with the profile is
\* among them; profile [1, 0] with candidates B = [1, 0], C = [0, 1] yields B
\* alone, with score 1.0; an empty profile yields the empty list.
C14_OnlyPositiveSimilarity ==
    \A r \in Requests :
        (ProfileBuilt(r) /\ ~loc[r].user_profile.raised) =>
            LET recs == loc[r].content_based_recs
                profile == loc[r].user_profile.vec
            IN /\ \A k \in DOMAIN recs : recs[k].score > 0
               /\ \A k \in DOMAIN Candidates(r) :
                      (Len(Candidates(r)[k].feature_vector) = Len(profile)
                       /\ Dot(profile, Candidates(r)[k].feature_vector) <= 0)
                          => Candidates(r)[k].content_id \notin ContentIds(recs)
               /\ profile = <<>> => recs = <<>>
               /\ ProfileOneZero(r) =>
                      /\ Len(recs) = 1
                      /\ recs[1].content_id = Candidates(r)[1].content_id
                      /\ recs[1].score = SimScale * WeightScale * HybridScale

\* the scenario of the claim, scored
C14_Witness ==
    \E r \in Requests :
        /\ ProfileBuilt(r)
        /\ ProfileOneZero(r)
        /\ Len(loc[r].content_based_recs) = 1

\* an empty profile scored against candidates: a user with a preference
\* record and no interaction record
C14_EmptyProfileWitness ==
    \E r \in Requests :
        /\ ProfileBuilt(r)
        /\ loc[r].user_profile.vec = <<>>
        /\ Len(Candidates(r)) >= 2
        /\ loc[r].content_based_recs = <<>>

\* the sum, over the stored interactions with one content of the users of
\* similar_users, of similarity * type weight * engagement score
RECURSIVE Contributions(_, _, _)
Contributions(table, similar_users, content_id) ==
    IF table = <<>> THEN 0
    ELSE LET i == Head(table)
             su == {x \in Range(similar_users) : x.user_id = i.user_id}
             term == IF i.content_id = content_id /\ su # {}
                     THEN (CHOOSE x \in su : TRUE).score
                              * interaction_weights(i.interaction_type) * i.engagement_score
                              * HybridScale
                     ELSE 0
         IN term + Contributions(Tail(table), similar_users, content_id)

\* the requests whose collaborative scorer has aggregated the similar users'
\* interactions
Aggregated(r) ==
    /\ loc[r].similar_users # <<>>
    /\ \/ pc[r] \in {"hybrid_merge", "commit"}
       \/ Done(r) /\ outcome[r].at \in {"", "commit"}

\* the content some similar user has interacted with and the target user has not
Unseen(r) ==
    {c \in Contents :
        /\ c \notin SeenBy(args[r].user_id)
        /\ \E k \in DOMAIN loc[r].similar_users :
               c \in SeenBy(loc[r].similar_users[k].user_id)}

\* the scenario of the claim: the target user and one other user both like
\* c1, and the other user has completed c2
BothLikeOneCompleted(r) ==
    interactions = << Interaction(args[r].user_id, "c1", "like", 1),
                      Interaction("u2", "c1", "like", 1),
                      Interaction("u2", "c2", "complete", 1) >>

\* C15: the collaborative score of a content is the sum, over every similar
\* user and every interaction of that user with the content, repeated ones
\* included, of similarity * type weight * engagement score; only content the
\* target user has not interacted with is scored, and all of it up to the
\* limit; when two users like X and the other has completed Y, Y is returned
\* with score similarity * 3.0.
C15_CollaborativeScoreIsSum ==
    \A r \in Requests :
        Aggregated(r) =>
            LET recs == loc[r].collab_recs
            IN /\ \A k \in DOMAIN recs :
                      /\ recs[k].content_id \in Unseen(r)
                      /\ recs[k].score =
                             Contributions(interactions, loc[r].similar_users, recs[k].content_id)
               /\ Len(recs) < args[r].limit => ContentIds(recs) = Unseen(r)
               /\ BothLikeOneCompleted(r) =>
                      /\ Len(recs) = 1
                      /\ recs[1].content_id = "c2"
                      /\ recs[1].score =
                             loc[r].similar_users[1].score * 3 * WeightScale * HybridScale

\* a content scored from two interactions of one similar user with it
C15_Witness ==
    \E r \in Requests :
        /\ Aggregated(r)
        /\ \E k \in DOMAIN loc[r].collab_recs :
               LET c == loc[r].collab_recs[k].content_id
               IN /\ \E u \in {loc[r].similar_users[j].user_id : j \in DOMAIN loc[r].similar_users} :
                         Cardinality({n \in DOMAIN interactions :
                                          /\ interactions[n].user_id = u
                                          /\ interactions[n].content_id = c}) = 2
                  /\ loc[r].collab_recs[k].score > 0

\* the scenario of the claim, scored
C15_ScenarioWitness ==
    \E r \in Requests :
        /\ Aggregated(r)
        /\ BothLikeOneCompleted(r)
        /\ Len(loc[r].collab_recs) = 1

\* get_recommendations run alone and without a failing storage call over the
\* stored data as it is: [raised, recs], raised when ValueError leaves it
GetRecommendations(user_id, filters, limit, user_prefs) ==
    LET read == _get_user_interactions(user_id)
        content_vectors == _get_content_feature_vectors(filters.content_type, filters.subject,
                                                        filters.difficulty_level)
        user_profile == _calculate_user_profile(read, user_prefs, InteractedContentVectors(read))
        content_based ==
            IF (read = <<>> /\ ~user_prefs) \/ content_vectors = <<>>
            THEN [raised |-> FALSE, recs |-> <<>>]
            ELSE IF user_profile.raised THEN [raised |-> TRUE, recs |-> <<>>]
            ELSE ScoreCandidates(user_profile.vec, content_vectors, read, limit)
        similar_users ==
            SimilarUsersFrom(read, OtherUsersInteractions(user_id, ContentIds(read)))
        collaborative ==
            IF read = <<>> \/ similar_users = <<>> THEN <<>>
            ELSE Take(SortByScore(RecommendationsFrom(read, similar_users,
                                      SimilarUsersInteractions(similar_users))), limit)
    IN IF content_based.raised THEN [raised |-> TRUE, recs |-> <<>>]
       ELSE [raised |-> FALSE,
             recs |-> _hybrid_merge_recommendations(content_based.recs, collaborative, limit)]

\* what the request would have ended with had the user's preference record
\* been there when it is not, and not been there when it is
WithPreferenceToggled(r) ==
    GetRecommendations(args[r].user_id, args[r].filters, args[r].limit,
                       ~_get_user_preferences(args[r].user_id))

\* C16: whether the user has a preference record does not change what
\* get_recommendations ends with: a request no storage call fails under
\* returns the list it would return over the same data with the record added
\* or removed, and raises exactly when it would raise then.
C16_PreferenceRecordWithoutInfluence ==
    \A r \in Requests :
        (Done(r) /\ fault[r] = "") =>
            /\ (outcome[r].kind = "raised") = WithPreferenceToggled(r).raised
            /\ outcome[r].value = WithPreferenceToggled(r).recs

\* a request of a user with a preference record and no interaction record
\* returned, the content-based scorer having scored candidates
C16_Witness ==
    \E r \in Requests :
        /\ Returned(r)
        /\ loc[r].user_prefs
        /\ SeenBy(args[r].user_id) = {}
        /\ Len(loc[r].content_vectors) >= 2

\* a request of a user with a preference record returned recommendations
C16_RecommendedWitness ==
    \E r \in Requests :
        /\ Returned(r)
        /\ loc[r].user_prefs
        /\ Len(outcome[r].value) = 2

\* what a request running alone over the stored data ends with
Lone(r) ==
    GetRecommendations(args[r].user_id, args[r].filters, args[r].limit,
                       _get_user_preferences(args[r].user_id))

\* the history rows of the list a request returned, none for a request that
\* raised
RowsReturned(r) == RecordedRows(args[r].user_id, outcome[r].value)

\* C17: of two requests for the same user interleaved at their storage
\* calls, each one that returns returns the list a request running alone
\* returns, and once both have ended the history holds one row for each item
\* of each returned list and no other row.
C17_ConcurrentRequestsIndependent ==
    /\ \A r \in Requests :
           Returned(r) => (~Lone(r).raised /\ outcome[r].value = Lone(r).recs)
    /\ (\A r \in Requests : Done(r)) =>
           history \in {RowsReturned(1) \o RowsReturned(2), RowsReturned(2) \o RowsReturned(1)}

\* both requests have returned two recommendations and four rows are stored
C17_Witness ==
    /\ \A r \in Requests : Returned(r) /\ Len(outcome[r].value) = 2
    /\ Len(history) = 4
    /\ args[1].user_id = args[2].user_id

\* C18: no step of get_recommendations changes a UserPreference,
\* UserContentInteraction or ContentFeatureVector record, and none changes or
\* removes a RecommendationHistory row that exists: the rows stored before a
\* step are, in place and unchanged, the first rows stored after it.
C18_OnlyAppendsHistory ==
    [][ /\ prefs' = prefs
        /\ interactions' = interactions
        /\ vectors' = vectors
        /\ Len(history') >= Len(history)
        /\ SubSeq(history', 1, Len(history)) = history ]_vars

\* a request has committed its rows onto those of the other
C18_Witness ==
    /\ \A r \in Requests : Returned(r) /\ Len(outcome[r].value) = 1
    /\ Len(history) = 2
    /\ prefs # {}

\* C19: a request whose body gives a limit below 1 or above 50 ends in the
\* validation of the body with an error and get_recommendations is never
\* entered for it; a request whose body gives no limit runs with limit 10,
\* and one with a limit from 1 to 50 runs with that limit.
C19_LimitValidated ==
    \A r \in Requests :
        LET body_limit == args[r].body_limit
            rejected == body_limit # <<>> /\ (body_limit[1] < 1 \/ body_limit[1] > 50)
        IN pc[r] \notin {"off", "validate"} =>
               IF rejected
               THEN /\ Done(r)
                    /\ outcome[r].kind = "raised"
                    /\ outcome[r].error = "ValidationError"
                    /\ outcome[r].at = "validate"
                    /\ loc[r] = NoLocals
                    /\ history = <<>>
               ELSE /\ outcome[r].error # "ValidationError"
                    /\ args[r].limit = IF body_limit = <<>> THEN 10 ELSE body_limit[1]
                    /\ Returned(r) =>
                           /\ Len(outcome[r].value) <= args[r].limit
                           /\ outcome[r].value = Lone(r).recs

\* a request with limit 51 rejected
C19_Witness ==
    \E r \in Requests :
        /\ Done(r)
        /\ args[r].body_limit = <<51>>
        /\ outcome[r].error = "ValidationError"
        /\ Len(interactions) >= 3

\* a request with limit 0 rejected
C19_ZeroWitness ==
    \E r \in Requests :
        Done(r) /\ args[r].body_limit = <<0>> /\ outcome[r].error = "ValidationError"

\* a request without a limit returned two recommendations
C19_DefaultWitness ==
    \E r \in Requests :
        /\ Returned(r)
        /\ args[r].body_limit = <<>>
        /\ args[r].limit = 10
        /\ Len(outcome[r].value) = 2

\* the interactions a request read that are about content with a stored
\* feature vector, and the sum of their weights
WithStoredVector(r) ==
    SelectSeq(loc[r].interactions,
              LAMBDA i : \E k \in DOMAIN vectors : vectors[k].content_id = i.content_id)

TotalWeight(r) ==
    SumScores([k \in DOMAIN WithStoredVector(r) |-> InteractionWeight(WithStoredVector(r)[k])])

\* C20: when the weights of the user's interactions with content that has a
\* stored feature vector add up to zero, _calculate_user_profile returns the
\* empty vector.
C20_ZeroTotalWeightGivesEmptyProfile ==
    \A r \in Requests :
        (ProfileBuilt(r) /\ ~loc[r].user_profile.raised /\ TotalWeight(r) = 0) =>
            loc[r].user_profile.vec = <<>>

\* the requests whose _find_similar_users has returned
SimilarUsersFound(r) ==
    /\ loc[r].user_interactions # <<>>
    /\ \/ pc[r] \in {"cf_seen_interactions", "cf_similar_users_interactions",
                      "hybrid_merge", "commit"}
       \/ Done(r) /\ outcome[r].at \in {"", "commit", "cf_seen_interactions",
                                         "cf_similar_users_interactions"}

\* the users of positive similarity among the stored interactions' users, by
\* the vectors over the target user's anchor set
PositivelySimilar(r) ==
    LET anchor == SeenBy(args[r].user_id)
        Vec(u) == _create_interaction_vector(
                      IF u = args[r].user_id THEN _get_user_interactions(u)
                      ELSE SelectSeq(interactions, LAMBDA i : i.user_id = u /\ i.content_id \in anchor),
                      anchor)
        Sim(u) == _calculate_similarity_score(Vec(args[r].user_id), Vec(u))
    IN {u \in {interactions[k].user_id : k \in DOMAIN interactions} \ {args[r].user_id} :
           SeenBy(u) \cap anchor # {} /\ Sim(u).kind = "num" /\ Sim(u).val > 0}

\* C21: _find_similar_users returns at most 10 users, each with a similarity
\* above 0, in order of non-increasing similarity; the target user is not
\* among them, nor is a user without an interaction with content of the
\* target user's anchor set.
C21_SimilarUsersBounded ==
    \A r \in Requests :
        SimilarUsersFound(r) =>
            LET similar_users == loc[r].similar_users
            IN /\ Len(similar_users) <= 10
               /\ \A k \in DOMAIN similar_users :
                      /\ similar_users[k].score > 0
                      /\ similar_users[k].user_id # args[r].user_id
                      /\ SeenBy(similar_users[k].user_id) \cap SeenBy(args[r].user_id) # {}
               /\ \A i, j \in DOMAIN similar_users :
                      i < j => /\ similar_users[i].score >= similar_users[j].score
                               /\ similar_users[i].user_id # similar_users[j].user_id

\* ten users kept of eleven of positive similarity, of two different
\* similarities, beside a user of negative similarity and a user outside the
\* anchor set
C21_Witness ==
    \E r \in Requests :
        /\ SimilarUsersFound(r)
        /\ Len(loc[r].similar_users) = 10
        /\ Cardinality(PositivelySimilar(r)) = 11
        /\ loc[r].similar_users[1].score > loc[r].similar_users[10].score
        /\ loc[r].similar_users[1].user_id = "v02"

\* the weight of the interaction of a list with one content that the list
\* holds last, 0 when it holds none
WeightOfLast(list, content_id) ==
    LET at == {j \in DOMAIN list : list[j].content_id = content_id}
    IN IF at = {} THEN 0
       ELSE LET last == CHOOSE j \in at : \A i \in at : i <= j
            IN interaction_weights(list[last].interaction_type) * list[last].engagement_score

\* the lists _find_similar_users makes vectors of: the target user's
\* interactions and those of each other user its query returned
VectorisedLists(r) ==
    LET others == OtherUsersInteractions(args[r].user_id, ContentIds(loc[r].user_interactions))
    IN {loc[r].user_interactions}
       \cup {SelectSeq(others, LAMBDA i : i.user_id = u) :
                 u \in {others[k].user_id : k \in DOMAIN others}}

\* C22: the vector _create_interaction_vector makes of a list has, for each
\* anchor content, the weight (type weight * engagement score) of the last
\* interaction of the list with that content, earlier ones being overwritten,
\* and 0 for anchor content the list has no interaction with; so a user with
\* one like of c1 is 0.70 similar to a target user whose list ends, for c1
\* and for c2, with a view.
C22_LastInteractionWins ==
    \A r \in Requests :
        SimilarUsersFound(r) =>
            LET anchor == ContentIds(loc[r].user_interactions)
                ids == SortedIds(anchor)
            IN /\ \A list \in VectorisedLists(r) :
                      LET vector == _create_interaction_vector(list, anchor)
                      IN /\ Len(vector) = Cardinality(anchor)
                         /\ \A k \in DOMAIN vector : vector[k] = WeightOfLast(list, ids[k])
               /\ \A k \in DOMAIN loc[r].similar_users :
                      (loc[r].similar_users[k].user_id = "v01" /\ anchor = {"c1", "c2"})
                          => loc[r].similar_users[k].score = 70

\* the target user's list holds a like of c1 and then, last, a view of c1;
\* another user's list holds two interactions with c1 and none with c2
C22_Witness ==
    \E r \in Requests :
        /\ SimilarUsersFound(r)
        /\ \E i, j \in DOMAIN loc[r].user_interactions :
               /\ i < j
               /\ loc[r].user_interactions[i].content_id = loc[r].user_interactions[j].content_id
               /\ InteractionWeight(loc[r].user_interactions[i])
                      > InteractionWeight(loc[r].user_interactions[j])
        /\ \E k \in DOMAIN loc[r].similar_users : loc[r].similar_users[k].user_id = "v01"
        /\ Len(loc[r].similar_users) >= 2

\* the stored feature-vector rows whose metadata equals every filter value a
\* request supplies
MatchingRows(r) ==
    {k \in DOMAIN vectors :
        \A kv \in SuppliedFilters(r) : vectors[k].metadata[kv[1]] = kv[2]}

\* C23: every content the content-based scorer returns has a feature-vector
\* row whose metadata equals each filter value supplied, a filter left out
\* constraining nothing: the scorer's candidates are the rows that match all
\* supplied filters, all rows when none is supplied.
C23_ContentBasedFiltered ==
    \A r \in Requests :
        /\ \A c \in ContentIds(loc[r].content_based_recs) :
               \E k \in MatchingRows(r) : vectors[k].content_id = c
        /\ loc[r].content_vectors # <<>> =>
               ContentIds(loc[r].content_vectors) = {vectors[k].content_id : k \in MatchingRows(r)}

\* a filtered request got content-based recommendations while an unseen row
\* of positive similarity to the profile does not match the filters
C23_Witness ==
    \E r \in Requests :
        /\ SuppliedFilters(r) # {}
        /\ loc[r].content_based_recs # <<>>
        /\ \E k \in DOMAIN vectors \ MatchingRows(r) :
               /\ vectors[k].content_id \notin SeenBy(args[r].user_id)
               /\ Len(vectors[k].feature_vector) = Len(loc[r].user_profile.vec)
               /\ Dot(vectors[k].feature_vector, loc[r].user_profile.vec) > 0

\* an unfiltered request scored every stored row
C23_UnfilteredWitness ==
    \E r \in Requests :
        /\ SuppliedFilters(r) = {}
        /\ Len(loc[r].content_vectors) = 3
        /\ loc[r].content_based_recs # <<>>

\* the recommendation a list holds for a content id
RecOf(recs, content_id) ==
    recs[CHOOSE k \in DOMAIN recs : recs[k].content_id = content_id]

\* C24: the metadata of a merged entry whose content both scorers returned
\* has every key of the content-based metadata and every key of the
\* collaborative metadata, with the collaborative value for each key both
\* have and the content-based value for each key only it has; for every
\* merged entry metadata.content_based_score and metadata.collaborative_score
\* are the two scores its hybrid score is computed from.
C24_MetadataMerged ==
    \A r \in Requests :
        Merged(r) =>
            \A n \in DOMAIN loc[r].final_recs :
                LET rec == loc[r].final_recs[n]
                    c == rec.content_id
                    cb == loc[r].content_based_recs
                    cf == loc[r].collab_recs
                IN /\ rec.metadata.content_based_score = ScoreIn(cb, c)
                   /\ rec.metadata.collaborative_score = ScoreIn(cf, c)
                   /\ rec.score * 10 = 6 * rec.metadata.content_based_score
                                       + 4 * rec.metadata.collaborative_score
                   /\ (c \in ContentIds(cb) /\ c \in ContentIds(cf)) =>
                          LET first == RecOf(cb, c).metadata
                              second == RecOf(cf, c).metadata
                          IN /\ (DOMAIN first \cup DOMAIN second) \subseteq DOMAIN rec.metadata
                             /\ \A key \in DOMAIN second : rec.metadata[key] = second[key]
                             /\ \A key \in DOMAIN first \ DOMAIN second :
                                    rec.metadata[key] = first[key]

\* a merged entry of a content both scorers returned, with different scores,
\* whose two metadata maps share a key
C24_Witness ==
    \E r \in Requests :
        /\ Merged(r)
        /\ \E n \in DOMAIN loc[r].final_recs :
               LET c == loc[r].final_recs[n].content_id
                   cb == loc[r].content_based_recs
                   cf == loc[r].collab_recs
               IN /\ c \in ContentIds(cb) /\ c \in ContentIds(cf)
                  /\ RecOf(cb, c).score # RecOf(cf, c).score
                  /\ \E key \in DOMAIN RecOf(cb, c).metadata \cap DOMAIN RecOf(cf, c).metadata :
                         RecOf(cb, c).metadata[key] # RecOf(cf, c).metadata[key]

\* the feature vector stored for a content
StoredVector(content_id) ==
    vectors[CHOOSE k \in DOMAIN vectors : vectors[k].content_id = content_id].feature_vector

\* the sum of weight * stored vector over a list of interactions, each with a
\* stored vector, all of one length; <<>> for the empty list
RECURSIVE WeightedVectorSum(_)
WeightedVectorSum(list) ==
    IF list = <<>> THEN <<>>
    ELSE LET first == Scaled(StoredVector(list[1].content_id), InteractionWeight(list[1]))
             rest == WeightedVectorSum(Tail(list))
         IN IF rest = <<>> THEN first ELSE VecAdd(first, rest)

\* C25: an interaction whose content has no stored feature vector is skipped
\* by the profile builder: the builder raises only when two interactions with
\* stored vectors disagree on the vector length, the weighted sum and the
\* total weight are those of the interactions with a stored vector alone, and
\* when no interaction has a stored vector the profile is empty and the
\* content-based scorer returns the empty list.
C25_UnvectorisedInteractionsSkipped ==
    \A r \in Requests :
        ProfileBuilt(r) =>
            LET p == loc[r].user_profile
                kept == WithStoredVector(r)
            IN /\ p.raised =>
                      \E i, j \in DOMAIN kept :
                          Len(StoredVector(kept[i].content_id))
                              # Len(StoredVector(kept[j].content_id))
               /\ ~p.raised =>
                      /\ p.vec = WeightedVectorSum(kept)
                      /\ p.divided => p.den = TotalWeight(r)
                      /\ p.divided <=> (kept # <<>> /\ TotalWeight(r) > 0)
                      /\ kept = <<>> =>
                             (p.vec = <<>> /\ loc[r].content_based_recs = <<>>)

\* a profile built from a history in which an interaction without a stored
\* vector sits between the ones that have one, giving a recommendation
C25_Witness ==
    \E r \in Requests :
        /\ ProfileBuilt(r) /\ Merged(r)
        /\ loc[r].user_profile.divided
        /\ Len(WithStoredVector(r)) < Len(loc[r].interactions)
        /\ loc[r].content_based_recs # <<>>

\* a user none of whose interactions has a stored vector, with candidates to
\* score
C25_NoVectorWitness ==
    \E r \in Requests :
        /\ ProfileBuilt(r) /\ Merged(r)
        /\ loc[r].interactions # <<>>
        /\ WithStoredVector(r) = <<>>
        /\ Candidates(r) # <<>>

\* C26: every recommendation get_recommendations returns has a strictly
\* positive score.
C26_ReturnedScoresPositive ==
    \A r \in Requests :
        Returned(r) =>
            \A k \in DOMAIN outcome[r].value : outcome[r].value[k].score > 0

\* the lists the two scorers of a request have before they cut them to the
\* limit, and the merger's ranking of those
UncutContentBased(r) ==
    ScoreLoop(loc[r].user_profile.vec, loc[r].content_vectors,
              ContentIds(loc[r].interactions), 1).recs

UncutCollaborative(r) ==
    IF loc[r].similar_users = <<>> THEN <<>>
    ELSE RecommendationsFrom(loc[r].seen_interactions, loc[r].similar_users,
                             SimilarUsersInteractions(loc[r].similar_users))

UncutRanking(r) ==
    _hybrid_merge_recommendations(UncutContentBased(r), UncutCollaborative(r),
        Len(UncutContentBased(r)) + Len(UncutCollaborative(r)))

\* C27: the list get_recommendations(limit = N) returns is a top N of the
\* ranking of all unseen candidates by 0.6 * positive similarity + 0.4 * full
\* collaborative score: it has N entries when there are that many candidates,
\* each returned entry has the score of the full ranking, and no candidate
\* left out scores more than the last returned entry.
C27_ReturnsTrueTopN ==
    \A r \in Requests :
        Returned(r) =>
            LET full == UncutRanking(r)
                value == outcome[r].value
            IN /\ Len(value) = (IF Len(full) < args[r].limit THEN Len(full) ELSE args[r].limit)
               /\ \A k \in DOMAIN value :
                      /\ value[k].content_id \in ContentIds(full)
                      /\ value[k].score = ScoreIn(full, value[k].content_id)
               /\ \A n \in DOMAIN full :
                      full[n].content_id \notin ContentIds(value) =>
                          full[n].score <= value[Len(value)].score

\* C28: every recommendation the hybrid merger produces carries
\* metadata.recommendation_source = "hybrid".
C28_SourceIsHybrid ==
    \A r \in Requests :
        Merged(r) =>
            \A k \in DOMAIN loc[r].final_recs :
                /\ loc[r].final_recs[k].recommendation_type = "hybrid"
                /\ loc[r].final_recs[k].metadata.recommendation_source = "hybrid"

\* C29: of two calls of get_recommendations for the same user with the same
\* arguments, the second made after the first has ended and nothing but the
\* history having changed, the second returns the list the first returned,
\* and the history holds the rows of the first call's list followed by the
\* rows of the second call's list, one per returned item.
C29_HistoryDoesNotFeedBack ==
    /\ (Returned(1) /\ Returned(2)) => outcome[2].value = outcome[1].value
    /\ (Done(1) /\ Done(2)) => history = RowsReturned(1) \o RowsReturned(2)
    /\ (Returned(1) /\ ~Done(2)) => history = RowsReturned(1)

\* both calls have returned the same two recommendations and the history
\* holds four rows, the second pair repeating the first
C29_Witness ==
    /\ Returned(1) /\ Returned(2)
    /\ Len(outcome[1].value) = 2
    /\ Len(history) = 4
    /\ history[3].content_id = history[1].content_id
    /\ history[4].content_id = history[2].content_id

\* the content in the target user's history as any of the three reads of a
\* request saw it
ReadAsSeen(r) ==
    ContentIds(loc[r].interactions) \cup ContentIds(loc[r].user_interactions)
        \cup ContentIds(loc[r].seen_interactions)

\* C30: with interaction records of the target user added while the request
\* runs, no content the request returns is in the user's history as any of
\* the request's reads of it saw it.
C30_ConsistentViewOfHistory ==
    \A r \in Requests :
        Returned(r) => ContentIds(outcome[r].value) \cap ReadAsSeen(r) = {}

====
